---- MODULE Spec2Model ----
(***************************************************************************)
(* Model of src/index.js: an edge worker that rewrites a family of GitHub  *)
(* download paths into upstream fetches and relays the upstream response   *)
(* with a permissive CORS header.                                          *)
(*                                                                         *)
(* Strings of the program (paths, URLs, bodies) are sequences of           *)
(* one-character strings, so that startsWith, replace, the four regular    *)
(* expressions and the URL templates are computed character by character.  *)
(* One request is followed from the fetch event to its response; the       *)
(* awaits of the handler are the points where the model's actions end.     *)
(***************************************************************************)
EXTENDS Integers, Sequences, FiniteSets, TLC

VARIABLES
    pc,            \* "idle" | "probe" (await at line 96) | "relay" (await at line 125) | "done"
    path,          \* url.pathname of the request being handled
    releaseMatch,  \* locals of handleGitHubRequest: match arrays or Null
    versionMatch,
    blobMatch,
    rawMatch,
    githubUrl,     \* local githubUrl of the branch taken
    inTry,         \* TRUE while execution is inside the try block of lines 95-106
    fetched,       \* URLs passed to fetch() so far for this request, in order
    inFlight,      \* number of fetch() promises currently pending
    probeStatus,   \* status of the probe response (line 96), 0 before it settles
    upstream,      \* the upstream response res of fetchWithCors (line 125), or Null
    response,      \* the Response handleRequest resolved with, or Null
    thrown         \* TRUE when handleRequest's promise rejected instead

vars == <<pc, path, releaseMatch, versionMatch, blobMatch, rawMatch, githubUrl,
          inTry, fetched, inFlight, probeStatus, upstream, response, thrown>>

\* null / undefined
Null == <<>>

(***************************************************************************)
(* String helpers                                                          *)
(***************************************************************************)

\* String.prototype.startsWith
StartsWith(s, p) ==
    /\ Len(p) <= Len(s)
    /\ SubSeq(s, 1, Len(p)) = p

\* String.prototype.indexOf, 1-based; 0 when pat does not occur
IndexOf(s, pat) ==
    LET hits == {i \in 1..(Len(s) - Len(pat) + 1) : SubSeq(s, i, i + Len(pat) - 1) = pat}
    IN  IF hits = {} THEN 0 ELSE CHOOSE i \in hits : \A j \in hits : i <= j

\* String.prototype.replace with a string pattern: every occurrence removed
\* (the behaviour of replaceAll, not of replace)
RECURSIVE ReplaceEvery(_, _, _)
ReplaceEvery(s, pat, rep) ==
    LET i == IndexOf(s, pat)
    IN  IF i = 0 \/ pat = <<>> THEN s
        ELSE SubSeq(s, 1, i - 1) \o rep \o ReplaceEvery(SubSeq(s, i + Len(pat), Len(s)), pat, rep)

\* String.prototype.replace with a string pattern: only the first occurrence
Replace(s, pat, rep) ==
    LET i == IndexOf(s, pat)
    IN  IF i = 0 THEN s
        ELSE SubSeq(s, 1, i - 1) \o rep \o SubSeq(s, i + Len(pat), Len(s))

\* s contains sub as a substring
Includes(s, sub) == IndexOf(s, sub) # 0

(***************************************************************************)
(* Configuration                                                           *)
(***************************************************************************)

PREFIX_ACCESS == <<"/", "3", "l", "w", "q", "k">>
PREFIX_GH == <<"/", "g", "h", "/">>

(***************************************************************************)
(* Regular expressions.  A pattern is a sequence of items: a literal       *)
(* character, "seg" for a group of one or more non-slash characters and    *)
(* "rest" for the final group of any characters.                           *)
(* Every pattern of the program is anchored with ^ and $.                  *)
(***************************************************************************)

Lit(s) == [i \in 1..Len(s) |-> [t |-> "lit", c |-> s[i]]]
Seg == <<[t |-> "seg"]>>
Rest == <<[t |-> "rest"]>>

\* number of characters from position i on that [^\/] accepts in a row
RECURSIVE SegRun(_, _)
SegRun(s, i) ==
    IF i > Len(s) \/ s[i] = "/" THEN 0 ELSE 1 + SegRun(s, i + 1)

\* Backtracking matcher: item k of re against s from position i, groups so
\* far in caps.  Greedy quantifiers try the longest run first.
RECURSIVE MatchFrom(_, _, _, _, _)
RECURSIVE TryLen(_, _, _, _, _, _, _)
TryLen(re, k, s, i, caps, n, least) ==
    IF n < least THEN Null
    ELSE LET r == MatchFrom(re, k + 1, s, i + n, Append(caps, SubSeq(s, i, i + n - 1)))
         IN  IF r # Null THEN r ELSE TryLen(re, k, s, i, caps, n - 1, least)

MatchFrom(re, k, s, i, caps) ==
    IF k > Len(re) THEN (IF i > Len(s) THEN caps ELSE Null)
    ELSE IF re[k].t = "lit"
         THEN IF i <= Len(s) /\ s[i] = re[k].c
              THEN MatchFrom(re, k + 1, s, i + 1, caps)
              ELSE Null
    ELSE IF re[k].t = "seg"
         THEN TryLen(re, k, s, i, caps, SegRun(s, i), 1)
    ELSE TryLen(re, k, s, i, caps, Len(s) - i + 1, 0)

\* String.prototype.match with a non-global regular expression: the array
\* [whole match, group 1, ..., group n], or Null
Match(s, re) == MatchFrom(re, 1, s, 1, <<s>>)

\* /^\/gh\/([^\/]+)\/([^\/]+)\/releases\/download\/([^\/]+)\/(.*)$/
ReleaseRegex ==
    Lit(PREFIX_GH) \o Seg \o Lit(<<"/">>) \o Seg
      \o Lit(<<"/", "r", "e", "l", "e", "a", "s", "e", "s", "/",
               "d", "o", "w", "n", "l", "o", "a", "d", "/">>)
      \o Seg \o Lit(<<"/">>) \o Rest

\* /^\/gh\/([^\/]+)\/([^\/]+)@([^\/]+)\/(.*)$/
VersionRegex ==
    Lit(PREFIX_GH) \o Seg \o Lit(<<"/">>) \o Seg \o Lit(<<"@">>)
      \o Seg \o Lit(<<"/">>) \o Rest

\* /^\/gh\/([^\/]+)\/([^\/]+)\/blob\/([^\/]+)\/(.*)$/
BlobRegex ==
    Lit(PREFIX_GH) \o Seg \o Lit(<<"/">>) \o Seg
      \o Lit(<<"/", "b", "l", "o", "b", "/">>)
      \o Seg \o Lit(<<"/">>) \o Rest

\* the blob pattern pasted for raw with its literal left as /blob/
RawRegexPasted ==
    Lit(PREFIX_GH) \o Seg \o Lit(<<"/">>) \o Seg
      \o Lit(<<"/", "b", "l", "o", "b", "/">>)
      \o Seg \o Lit(<<"/">>) \o Rest

\* /^\/gh\/([^\/]+)\/([^\/]+)\/raw\/([^\/]+)\/(.*)$/
RawRegex ==
    Lit(PREFIX_GH) \o Seg \o Lit(<<"/">>) \o Seg
      \o Lit(<<"/", "r", "a", "w", "/">>)
      \o Seg \o Lit(<<"/">>) \o Rest

(***************************************************************************)
(* URL templates.  m is a match array: m[1] the whole match, m[2..5] the   *)
(* groups user, repo, version, filePath.                                   *)
(***************************************************************************)

GitHubHost == <<"h", "t", "t", "p", "s", ":", "/", "/",
                "g", "i", "t", "h", "u", "b", ".", "c", "o", "m", "/">>
RawHost == <<"h", "t", "t", "p", "s", ":", "/", "/",
             "r", "a", "w", ".", "g", "i", "t", "h", "u", "b",
             "u", "s", "e", "r", "c", "o", "n", "t", "e", "n", "t", ".", "c", "o", "m", "/">>
ReleasesDownload == <<"/", "r", "e", "l", "e", "a", "s", "e", "s", "/",
                      "d", "o", "w", "n", "l", "o", "a", "d", "/">>
RawRefsTags == <<"/", "r", "a", "w", "/", "r", "e", "f", "s", "/", "t", "a", "g", "s", "/">>

\* `https://github.com/${user}/${repo}/releases/download/${version}/${filePath}`
ReleaseUrl(user, repo, version, filePath) ==
    GitHubHost \o user \o <<"/">> \o repo \o ReleasesDownload \o version \o <<"/">> \o filePath

\* `https://github.com/${user}/${repo}/raw/refs/tags/${version}/${filePath}`
VersionUrl(user, repo, version, filePath) ==
    GitHubHost \o user \o <<"/">> \o repo \o RawRefsTags \o version \o <<"/">> \o filePath

\* `https://github.com/${user}/${repo}/blob/${version}/${filePath}`: the
\* page URL of a blob instead of its raw content
BlobPageUrl(user, repo, version, filePath) ==
    GitHubHost \o user \o <<"/">> \o repo \o <<"/", "b", "l", "o", "b", "/">>
      \o version \o <<"/">> \o filePath

\* `https://raw.githubusercontent.com/${user}/${repo}/${version}/${filePath}`
BlobUrl(user, repo, version, filePath) ==
    RawHost \o user \o <<"/">> \o repo \o <<"/">> \o version \o <<"/">> \o filePath

\* `https://raw.githubusercontent.com/${user}/${repo}/${version}/${filePath}`
RawUrl(user, repo, version, filePath) ==
    RawHost \o user \o <<"/">> \o repo \o <<"/">> \o version \o <<"/">> \o filePath

\* a variable declared with let and never assigned, interpolated in a template
Undefined == <<"u", "n", "d", "e", "f", "i", "n", "e", "d">>

(***************************************************************************)
(* Responses                                                               *)
(***************************************************************************)

NotFoundBody == <<"4", "0", "4", " ", "N", "o", "t", " ", "F", "o", "u", "n", "d">>
FileNotFoundBody == <<"F", "i", "l", "e", " ", "n", "o", "t", " ", "f", "o", "u", "n", "d">>
ServerErrorBody == <<"I", "n", "t", "e", "r", "n", "a", "l", " ", "S", "e", "r", "v", "e", "r",
                     " ", "E", "r", "r", "o", "r">>

ACAO == "access-control-allow-origin"
ContentTypeName == "content-type"
TextHtml == <<"t", "e", "x", "t", "/", "h", "t", "m", "l">>

\* new Response(body, { status, headers }); headers is a function from the
\* (lower-cased) names given in the init to their values
NewResponse(body, status, headers) ==
    [body |-> body, status |-> status, headers |-> headers]

\* Headers.prototype.append on a copy: a value already present is kept
HeadersAppend(h, name, value) ==
    [n \in DOMAIN h \cup {name} |-> IF n \in DOMAIN h THEN h[n] ELSE value]

\* Headers.prototype.set on a copy of h
HeadersSet(h, name, value) ==
    [n \in DOMAIN h \cup {name} |-> IF n = name THEN value ELSE h[n]]

\* status < 400: redirects and 1xx counted as success
OkOrRedirect(status) == status < 400

\* Response.prototype.ok
ResponseOk(status) == status >= 200 /\ status <= 299

\* generateUsageGuide(): the template literal of lines 142-198
generateUsageGuide ==
    <<
       "\n", " ", " ", " ", " ", " ", " ", " ", " ", "<", "!", "D", "O", "C", "T", "Y",
       "P", "E", " ", "h", "t", "m", "l", ">", "\n", " ", " ", " ", " ", " ", " ", " ",
       " ", "<", "h", "t", "m", "l", " ", "l", "a", "n", "g", "=", "\"", "e", "n", "\"",
       ">", "\n", " ", " ", " ", " ", " ", " ", " ", " ", "<", "h", "e", "a", "d", ">",
       "\n", " ", " ", " ", " ", " ", " ", " ", " ", " ", " ", " ", " ", "<", "m", "e",
       "t", "a", " ", "c", "h", "a", "r", "s", "e", "t", "=", "\"", "U", "T", "F", "-",
       "8", "\"", ">", "\n", " ", " ", " ", " ", " ", " ", " ", " ", " ", " ", " ", " ",
       "<", "m", "e", "t", "a", " ", "n", "a", "m", "e", "=", "\"", "v", "i", "e", "w",
       "p", "o", "r", "t", "\"", " ", "c", "o", "n", "t", "e", "n", "t", "=", "\"", "w",
       "i", "d", "t", "h", "=", "d", "e", "v", "i", "c", "e", "-", "w", "i", "d", "t",
       "h", ",", " ", "i", "n", "i", "t", "i", "a", "l", "-", "s", "c", "a", "l", "e",
       "=", "1", ".", "0", "\"", ">", "\n", " ", " ", " ", " ", " ", " ", " ", " ", " ",
       " ", " ", " ", "<", "t", "i", "t", "l", "e", ">", "U", "s", "a", "g", "e", " ",
       "G", "u", "i", "d", "e", "<", "/", "t", "i", "t", "l", "e", ">", "\n", " ", " ",
       " ", " ", " ", " ", " ", " ", " ", " ", " ", " ", "<", "s", "t", "y", "l", "e",
       ">", "\n", " ", " ", " ", " ", " ", " ", " ", " ", " ", " ", " ", " ", " ", " ",
       " ", " ", "b", "o", "d", "y", " ", "{", "\n", " ", " ", " ", " ", " ", " ", " ",
       " ", " ", " ", " ", " ", " ", " ", " ", " ", " ", " ", " ", " ", "f", "o", "n",
       "t", "-", "f", "a", "m", "i", "l", "y", ":", " ", "A", "r", "i", "a", "l", ",",
       " ", "s", "a", "n", "s", "-", "s", "e", "r", "i", "f", ";", "\n", " ", " ", " ",
       " ", " ", " ", " ", " ", " ", " ", " ", " ", " ", " ", " ", " ", " ", " ", " ",
       " ", "m", "a", "r", "g", "i", "n", ":", " ", "2", "0", "p", "x", ";", "\n", " ",
       " ", " ", " ", " ", " ", " ", " ", " ", " ", " ", " ", " ", " ", " ", " ", " ",
       " ", " ", " ", "p", "a", "d", "d", "i", "n", "g", ":", " ", "2", "0", "p", "x",
       ";", "\n", " ", " ", " ", " ", " ", " ", " ", " ", " ", " ", " ", " ", " ", " ",
       " ", " ", " ", " ", " ", " ", "b", "a", "c", "k", "g", "r", "o", "u", "n", "d",
       "-", "c", "o", "l", "o", "r", ":", " ", "#", "f", "4", "f", "4", "f", "4", ";",
       "\n", " ", " ", " ", " ", " ", " ", " ", " ", " ", " ", " ", " ", " ", " ", " ",
       " ", " ", " ", " ", " ", "c", "o", "l", "o", "r", ":", " ", "#", "3", "3", "3",
       ";", "\n", " ", " ", " ", " ", " ", " ", " ", " ", " ", " ", " ", " ", " ", " ",
       " ", " ", "}", "\n", " ", " ", " ", " ", " ", " ", " ", " ", " ", " ", " ", " ",
       " ", " ", " ", " ", "h", "1", " ", "{", "\n", " ", " ", " ", " ", " ", " ", " ",
       " ", " ", " ", " ", " ", " ", " ", " ", " ", " ", " ", " ", " ", "c", "o", "l",
       "o", "r", ":", " ", "#", "0", "0", "7", "b", "f", "f", ";", "\n", " ", " ", " ",
       " ", " ", " ", " ", " ", " ", " ", " ", " ", " ", " ", " ", " ", "}", "\n", " ",
       " ", " ", " ", " ", " ", " ", " ", " ", " ", " ", " ", " ", " ", " ", " ", "p",
       "r", "e", " ", "{", "\n", " ", " ", " ", " ", " ", " ", " ", " ", " ", " ", " ",
       " ", " ", " ", " ", " ", " ", " ", " ", " ", "b", "a", "c", "k", "g", "r", "o",
       "u", "n", "d", "-", "c", "o", "l", "o", "r", ":", " ", "#", "e", "e", "e", ";",
       "\n", " ", " ", " ", " ", " ", " ", " ", " ", " ", " ", " ", " ", " ", " ", " ",
       " ", " ", " ", " ", " ", "p", "a", "d", "d", "i", "n", "g", ":", " ", "1", "0",
       "p", "x", ";", "\n", " ", " ", " ", " ", " ", " ", " ", " ", " ", " ", " ", " ",
       " ", " ", " ", " ", " ", " ", " ", " ", "b", "o", "r", "d", "e", "r", "-", "r",
       "a", "d", "i", "u", "s", ":", " ", "5", "p", "x", ";", "\n", " ", " ", " ", " ",
       " ", " ", " ", " ", " ", " ", " ", " ", " ", " ", " ", " ", "}", "\n", " ", " ",
       " ", " ", " ", " ", " ", " ", " ", " ", " ", " ", " ", " ", " ", " ", "c", "o",
       "d", "e", " ", "{", "\n", " ", " ", " ", " ", " ", " ", " ", " ", " ", " ", " ",
       " ", " ", " ", " ", " ", " ", " ", " ", " ", "f", "o", "n", "t", "-", "f", "a",
       "m", "i", "l", "y", ":", " ", "m", "o", "n", "o", "s", "p", "a", "c", "e", ";",
       "\n", " ", " ", " ", " ", " ", " ", " ", " ", " ", " ", " ", " ", " ", " ", " ",
       " ", " ", " ", " ", " ", "b", "a", "c", "k", "g", "r", "o", "u", "n", "d", "-",
       "c", "o", "l", "o", "r", ":", " ", "#", "f", "9", "f", "9", "f", "9", ";", "\n",
       " ", " ", " ", " ", " ", " ", " ", " ", " ", " ", " ", " ", " ", " ", " ", " ",
       " ", " ", " ", " ", "p", "a", "d", "d", "i", "n", "g", ":", " ", "2", "p", "x",
       " ", "4", "p", "x", ";", "\n", " ", " ", " ", " ", " ", " ", " ", " ", " ", " ",
       " ", " ", " ", " ", " ", " ", " ", " ", " ", " ", "b", "o", "r", "d", "e", "r",
       "-", "r", "a", "d", "i", "u", "s", ":", " ", "4", "p", "x", ";", "\n", " ", " ",
       " ", " ", " ", " ", " ", " ", " ", " ", " ", " ", " ", " ", " ", " ", "}", "\n",
       " ", " ", " ", " ", " ", " ", " ", " ", " ", " ", " ", " ", "<", "/", "s", "t",
       "y", "l", "e", ">", "\n", " ", " ", " ", " ", " ", " ", " ", " ", "<", "/", "h",
       "e", "a", "d", ">", "\n", " ", " ", " ", " ", " ", " ", " ", " ", "<", "b", "o",
       "d", "y", ">", "\n", " ", " ", " ", " ", " ", " ", " ", " ", " ", " ", " ", " ",
       "<", "h", "1", ">", "U", "s", "a", "g", "e", " ", "G", "u", "i", "d", "e", "<",
       "/", "h", "1", ">", "\n", " ", " ", " ", " ", " ", " ", " ", " ", " ", " ", " ",
       " ", "<", "p", ">", "U", "s", "e", " ", "t", "h", "e", " ", "f", "o", "l", "l",
       "o", "w", "i", "n", "g", " ", "e", "n", "d", "p", "o", "i", "n", "t", "s", " ",
       "t", "o", " ", "a", "c", "c", "e", "s", "s", " ", "G", "i", "t", "H", "u", "b",
       " ", "r", "e", "l", "e", "a", "s", "e", "s", ":", "<", "/", "p", ">", "\n", " ",
       " ", " ", " ", " ", " ", " ", " ", " ", " ", " ", " ", "<", "h", "2", ">", "G",
       "i", "t", "H", "u", "b", " ", "R", "e", "l", "e", "a", "s", "e", "s", "<", "/",
       "h", "2", ">", "\n", " ", " ", " ", " ", " ", " ", " ", " ", " ", " ", " ", " ",
       "<", "p", "r", "e", ">", "\n", "<", "c", "o", "d", "e", ">", "h", "t", "t", "p",
       "s", ":", "/", "/", "d", "l", "0", "9", ".", "n", "e", "t", "/", "3", "l", "w",
       "q", "k", "/", "g", "h", "/", "u", "s", "e", "r", "/", "r", "e", "p", "o", "@",
       "v", "e", "r", "s", "i", "o", "n", "/", "f", "i", "l", "e", "<", "/", "c", "o",
       "d", "e", ">", "\n", " ", " ", " ", " ", " ", " ", " ", " ", " ", " ", " ", " ",
       "<", "/", "p", "r", "e", ">", "\n", " ", " ", " ", " ", " ", " ", " ", " ", " ",
       " ", " ", " ", "<", "p", ">", "E", "x", "a", "m", "p", "l", "e", "s", ":", "<",
       "/", "p", ">", "\n", " ", " ", " ", " ", " ", " ", " ", " ", " ", " ", " ", " ",
       "<", "p", "r", "e", ">", "\n", "<", "c", "o", "d", "e", ">", "h", "t", "t", "p",
       "s", ":", "/", "/", "d", "l", "0", "9", ".", "n", "e", "t", "/", "3", "l", "w",
       "q", "k", "/", "g", "h", "/", "c", "o", "n", "t", "a", "i", "n", "e", "r", "d",
       "/", "c", "o", "n", "t", "a", "i", "n", "e", "r", "d", "@", "v", "1", ".", "6",
       ".", "4", "/", "c", "r", "i", "-", "c", "o", "n", "t", "a", "i", "n", "e", "r",
       "d", "-", "c", "n", "i", "-", "1", ".", "6", ".", "4", "-", "l", "i", "n", "u",
       "x", "-", "a", "m", "d", "6", "4", ".", "t", "a", "r", ".", "g", "z", "<", "/",
       "c", "o", "d", "e", ">", "\n", " ", " ", " ", " ", " ", " ", " ", " ", " ", " ",
       " ", " ", "<", "/", "p", "r", "e", ">", "\n", " ", " ", " ", " ", " ", " ", " ",
       " ", " ", " ", " ", " ", "<", "p", "r", "e", ">", "\n", "<", "c", "o", "d", "e",
       ">", "h", "t", "t", "p", "s", ":", "/", "/", "d", "l", "0", "9", ".", "n", "e",
       "t", "/", "3", "l", "w", "q", "k", "/", "g", "h", "/", "j", "q", "u", "e", "r",
       "y", "/", "j", "q", "u", "e", "r", "y", "@", "3", ".", "6", ".", "4", "/", "d",
       "i", "s", "t", "/", "j", "q", "u", "e", "r", "y", ".", "m", "i", "n", ".", "j",
       "s", "<", "/", "c", "o", "d", "e", ">", "\n", " ", " ", " ", " ", " ", " ", " ",
       " ", " ", " ", " ", " ", "<", "/", "p", "r", "e", ">", "\n", " ", " ", " ", " ",
       " ", " ", " ", " ", " ", " ", " ", " ", "<", "p", "r", "e", ">", "\n", "<", "c",
       "o", "d", "e", ">", "h", "t", "t", "p", "s", ":", "/", "/", "d", "l", "0", "9",
       ".", "n", "e", "t", "/", "3", "l", "w", "q", "k", "/", "g", "h", "/", "n", "g",
       "i", "n", "x", "/", "n", "g", "i", "n", "x", "@", "1", ".", "2", ".", "6", "/",
       "C", "H", "A", "N", "G", "E", "L", "O", "G", "<", "/", "c", "o", "d", "e", ">",
       "\n", " ", " ", " ", " ", " ", " ", " ", " ", " ", " ", " ", " ", "<", "/", "p",
       "r", "e", ">", "\n", " ", " ", " ", " ", " ", " ", " ", " ", " ", " ", " ", " ",
       "<", "h", "2", ">", "N", "o", "t", "e", "s", "<", "/", "h", "2", ">", "\n", " ",
       " ", " ", " ", " ", " ", " ", " ", " ", " ", " ", " ", "<", "u", "l", ">", "\n",
       " ", " ", " ", " ", " ", " ", " ", " ", " ", " ", " ", " ", " ", " ", " ", " ",
       "<", "l", "i", ">", "M", "a", "k", "e", " ", "s", "u", "r", "e", " ", "t", "o",
       " ", "u", "s", "e", " ", "v", "a", "l", "i", "d", " ", "u", "s", "e", "r", ",",
       " ", "r", "e", "p", "o", ",", " ", "a", "n", "d", " ", "v", "e", "r", "s", "i",
       "o", "n", " ", "n", "a", "m", "e", "s", ".", "<", "/", "l", "i", ">", "\n", " ",
       " ", " ", " ", " ", " ", " ", " ", " ", " ", " ", " ", " ", " ", " ", " ", "<",
       "l", "i", ">", "O", "n", "l", "y", " ", "a", "l", "p", "h", "a", "n", "u", "m",
       "e", "r", "i", "c", " ", "c", "h", "a", "r", "a", "c", "t", "e", "r", "s", ",",
       " ", "d", "a", "s", "h", "e", "s", ",", " ", "a", "n", "d", " ", "u", "n", "d",
       "e", "r", "s", "c", "o", "r", "e", "s", " ", "a", "r", "e", " ", "a", "l", "l",
       "o", "w", "e", "d", ".", "<", "/", "l", "i", ">", "\n", " ", " ", " ", " ", " ",
       " ", " ", " ", " ", " ", " ", " ", " ", " ", " ", " ", "<", "l", "i", ">", "F",
       "o", "r", " ", "t", "h", "e", " ", "l", "a", "t", "e", "s", "t", " ", "v", "e",
       "r", "s", "i", "o", "n", " ", "o", "f", " ", "a", " ", "r", "e", "p", "o", "s",
       "i", "t", "o", "r", "y", ",", " ", "o", "m", "i", "t", " ", "t", "h", "e", " ",
       "v", "e", "r", "s", "i", "o", "n", " ", "p", "a", "r", "t", ".", "<", "/", "l",
       "i", ">", "\n", " ", " ", " ", " ", " ", " ", " ", " ", " ", " ", " ", " ", "<",
       "/", "u", "l", ">", "\n", " ", " ", " ", " ", " ", " ", " ", " ", "<", "/", "b",
       "o", "d", "y", ">", "\n", " ", " ", " ", " ", " ", " ", " ", " ", "<", "/", "h",
       "t", "m", "l", ">", "\n", " ", " ", " ", " "
    >>

(***************************************************************************)
(* Inputs: request paths and upstream responses                            *)
(***************************************************************************)

\* most pieces, joined by "/", that follow the owner segment of a request path
MaxPieces == 4

\* pieces a path is assembled from: plain names, a repo segment with "@",
\* and the literal segments the patterns look for
Pieces ==
    { <<"a">>,
      <<"b", "@", "c">>,
      <<"r", "e", "l", "e", "a", "s", "e", "s", "/", "d", "o", "w", "n", "l", "o", "a", "d">>,
      <<"b", "l", "o", "b">>,
      <<"r", "a", "w">> }

\* pieces joined by "/"
RECURSIVE Join(_)
Join(ps) ==
    IF ps = <<>> THEN <<>>
    ELSE IF Len(ps) = 1 THEN ps[1]
    ELSE ps[1] \o <<"/">> \o Join(Tail(ps))

PieceSeqs(n) == UNION {[1..k -> Pieces] : k \in 0..n}

\* tails of up to n pieces, with and without a trailing "/"
Tails(n) == {Join(ps) \o t : ps \in PieceSeqs(n), t \in {<<>>, <<"/">>}}

\* one tail of each shape, and one of none
ShapeTails ==
    { Join(<<<<"a">>, <<"a">>, <<"r", "e", "l", "e", "a", "s", "e", "s", "/",
                              "d", "o", "w", "n", "l", "o", "a", "d">>, <<"a">>, <<"a">>>>),
      Join(<<<<"a">>, <<"b", "@", "c">>, <<"a">>>>),
      Join(<<<<"a">>, <<"a">>, <<"b", "l", "o", "b">>, <<"a">>, <<"a">>>>),
      Join(<<<<"a">>, <<"a">>, <<"r", "a", "w">>, <<"a">>, <<"a">>>>),
      Join(<<<<"a">>, <<"a">>>>) }

\* beginnings of a path that pass neither gate, or only the first
OtherHeads ==
    { <<"/">>,
      PREFIX_GH,
      <<"/", "3", "l", "w", "q", "/", "g", "h", "/">>,
      <<"/", "x">> \o PREFIX_ACCESS \o PREFIX_GH,
      PREFIX_ACCESS,
      PREFIX_ACCESS \o <<"/">>,
      PREFIX_ACCESS \o <<"/", "g", "h">>,
      PREFIX_ACCESS \o <<"x">> \o PREFIX_GH,
      PREFIX_ACCESS \o <<"/", "G", "H", "/">>,
      PREFIX_ACCESS \o PREFIX_ACCESS \o PREFIX_GH,
      PREFIX_ACCESS \o <<"/", "x">> \o PREFIX_GH }

\* url.pathname of the requests considered; a pathname starts with "/"
Paths ==
    {PREFIX_ACCESS \o PREFIX_GH \o <<"a", "/">> \o t : t \in Tails(MaxPieces)}
      \cup {PREFIX_ACCESS \o PREFIX_GH \o t : t \in Tails(1)}
      \cup {h \o t : h \in OtherHeads, t \in ShapeTails \cup Tails(1)}

\* final status codes fetch() can resolve with
Statuses == {200, 299, 300, 404, 500}

Star == <<"*">>
NullOrigin == <<"n", "u", "l", "l">>
OctetStream == <<"a", "p", "p", "l", "i", "c", "a", "t", "i", "o", "n", "/",
                 "o", "c", "t", "e", "t", "-", "s", "t", "r", "e", "a", "m">>
NoHeaders == [n \in {} |-> Null]

\* header sets an upstream response can carry
UpstreamHeaders ==
    { NoHeaders,
      (ContentTypeName :> OctetStream),
      (ACAO :> Star) @@ (ContentTypeName :> OctetStream),
      (ACAO :> NullOrigin) @@ (ContentTypeName :> OctetStream) }

UpstreamBody == <<"d", "a", "t", "a">>

\* responses the relay fetch can resolve with
UpstreamResponses ==
    {NewResponse(UpstreamBody, st, h) : st \in {200, 404, 500}, h \in UpstreamHeaders}

(***************************************************************************)
(* State machine                                                           *)
(***************************************************************************)

Init ==
    /\ pc = "idle"
    /\ path = <<>>
    /\ releaseMatch = Null
    /\ versionMatch = Null
    /\ blobMatch = Null
    /\ rawMatch = Null
    /\ githubUrl = <<>>
    /\ inTry = FALSE
    /\ fetched = <<>>
    /\ inFlight = 0
    /\ probeStatus = 0
    /\ upstream = Null
    /\ response = Null
    /\ thrown = FALSE

\* !releaseMatch && !versionMatch && !blobMatch && rawMatch: the last
\* negation left out
NoMatchButRaw(r, v, b, w) == r = Null /\ v = Null /\ b = Null /\ w # Null

\* !releaseMatch && !versionMatch && !blobMatch && !rawMatch
NoMatch(r, v, b, w) == r = Null /\ v = Null /\ b = Null /\ w = Null

\* the if / else-if chain with versionMatch tested before releaseMatch
BranchVersionFirst(r, v, b, w) ==
    IF v # Null THEN "version"
    ELSE IF r # Null THEN "release"
    ELSE IF b # Null THEN "blob"
    ELSE IF w # Null THEN "raw"
    ELSE "none"

\* the if / else-if chain of lines 72-90: the branch taken
Branch(r, v, b, w) ==
    IF r # Null THEN "release"
    ELSE IF v # Null THEN "version"
    ELSE IF b # Null THEN "blob"
    ELSE IF w # Null THEN "raw"
    ELSE "none"

\* `return fetchWithCors(...)` in the try block: the promise is returned
\* without await, so its rejection is not caught there
RelayNotAwaitedInTry == FALSE

\* `return await fetchWithCors(...)` in the try block: a rejection is thrown
\* inside the try
RelayAwaitedInTry == TRUE

\* `return new Response(...)`: handleRequest resolves with r
Return(r) ==
    /\ pc' = "done"
    /\ response' = r

\* fetch(url) is called and awaited with `pending` fetches still unsettled:
\* the handler is suspended at `at`
AwaitFetch(url, at, try, pending) ==
    /\ pc' = at
    /\ githubUrl' = url
    /\ fetched' = Append(fetched, url)
    /\ inFlight' = pending + 1
    /\ inTry' = try

\* new Response("File not found", { status: <the probe's status> })
ProbeStatusRelayed(status) == NewResponse(FileNotFoundBody, status, NoHeaders)

\* new Response("File not found", { status: 404 }), whatever the probe's status
FileNotFound(status) == NewResponse(FileNotFoundBody, 404, NoHeaders)

\* handleGitHubRequest(path, request) up to its first await or its return
HandleGitHubRequest(p) ==
    LET r == Match(p, ReleaseRegex)
        v == Match(p, VersionRegex)
        b == Match(p, BlobRegex)
        w == Match(p, RawRegex)
        br == Branch(r, v, b, w)
        m == CASE br = "release" -> r
               [] br = "version" -> v
               [] br = "blob" -> b
               [] br = "raw" -> w
               [] OTHER -> <<p, Undefined, Undefined, Undefined, Undefined>>
        user == m[2]
        repo == m[3]
        version == m[4]
        filePath == m[5]
    IN  /\ releaseMatch' = r
        /\ versionMatch' = v
        /\ blobMatch' = b
        /\ rawMatch' = w
        /\ IF NoMatch(r, v, b, w)
           THEN /\ Return(NewResponse(generateUsageGuide, 400, (ContentTypeName :> TextHtml)))
                /\ UNCHANGED <<githubUrl, fetched, inFlight, inTry>>
           ELSE /\ UNCHANGED response
                /\ CASE br = "version" ->
                          AwaitFetch(VersionUrl(user, repo, version, filePath), "relay", FALSE, inFlight)
                     [] br = "blob" ->
                          AwaitFetch(BlobUrl(user, repo, version, filePath), "relay", FALSE, inFlight)
                     [] br = "raw" ->
                          AwaitFetch(RawUrl(user, repo, version, filePath), "relay", FALSE, inFlight)
                     [] OTHER ->
                          AwaitFetch(ReleaseUrl(user, repo, version, filePath), "probe", TRUE, inFlight)

\* handleRequest(request) for a fetch event, up to its first await or its return
HandleRequest(p) ==
    /\ pc = "idle"
    /\ path' = p
    /\ IF ~StartsWith(p, PREFIX_ACCESS)
       THEN /\ Return(NewResponse(NotFoundBody, 404, NoHeaders))
            /\ UNCHANGED <<releaseMatch, versionMatch, blobMatch, rawMatch,
                           githubUrl, fetched, inFlight, inTry>>
       ELSE LET stripped == Replace(p, PREFIX_ACCESS, <<>>)
            IN  IF StartsWith(stripped, PREFIX_GH)
                THEN HandleGitHubRequest(stripped)
                ELSE /\ Return(NewResponse(NotFoundBody, 404, NoHeaders))
                     /\ UNCHANGED <<releaseMatch, versionMatch, blobMatch, rawMatch,
                                    githubUrl, fetched, inFlight, inTry>>
    /\ UNCHANGED <<probeStatus, upstream, thrown>>

\* line 96 resolves: the probe's response has status st
ProbeResolve(st) ==
    /\ pc = "probe"
    /\ probeStatus' = st
    /\ IF ~ResponseOk(st)
       THEN /\ Return(FileNotFound(st))
            /\ inFlight' = inFlight - 1
            /\ inTry' = FALSE
            /\ UNCHANGED <<githubUrl, fetched>>
       ELSE /\ AwaitFetch(githubUrl, "relay", RelayAwaitedInTry, inFlight - 1)
            /\ UNCHANGED response
    /\ UNCHANGED <<path, releaseMatch, versionMatch, blobMatch, rawMatch, upstream, thrown>>

\* line 96 rejects: network failure of the probe, caught at line 104
ProbeReject ==
    /\ pc = "probe"
    /\ Return(NewResponse(ServerErrorBody, 500, NoHeaders))
    /\ inFlight' = inFlight - 1
    /\ inTry' = FALSE
    /\ UNCHANGED <<path, releaseMatch, versionMatch, blobMatch, rawMatch,
                   githubUrl, fetched, probeStatus, upstream, thrown>>

\* line 125 resolves with res: the rest of fetchWithCors
RelayResolve(res) ==
    /\ pc = "relay"
    /\ upstream' = res
    /\ Return(NewResponse(res.body, res.status, HeadersSet(res.headers, ACAO, Star)))
    /\ inFlight' = inFlight - 1
    /\ inTry' = FALSE
    /\ UNCHANGED <<path, releaseMatch, versionMatch, blobMatch, rawMatch,
                   githubUrl, fetched, probeStatus, thrown>>

\* line 125 rejects: network failure of the relay fetch.  Inside the try
\* block it is caught at line 104; outside, handleRequest's promise rejects.
RelayReject ==
    /\ pc = "relay"
    /\ pc' = "done"
    /\ IF inTry
       THEN /\ response' = NewResponse(ServerErrorBody, 500, NoHeaders)
            /\ UNCHANGED thrown
       ELSE /\ thrown' = TRUE
            /\ UNCHANGED response
    /\ inFlight' = inFlight - 1
    /\ inTry' = FALSE
    /\ UNCHANGED <<path, releaseMatch, versionMatch, blobMatch, rawMatch,
                   githubUrl, fetched, probeStatus, upstream>>

\* the listener of line 18 takes the next fetch event: fresh locals
NextEvent ==
    /\ pc = "done"
    /\ pc' = "idle"
    /\ path' = <<>>
    /\ releaseMatch' = Null
    /\ versionMatch' = Null
    /\ blobMatch' = Null
    /\ rawMatch' = Null
    /\ githubUrl' = <<>>
    /\ inTry' = FALSE
    /\ fetched' = <<>>
    /\ inFlight' = 0
    /\ probeStatus' = 0
    /\ upstream' = Null
    /\ response' = Null
    /\ thrown' = FALSE

\* event.respondWith(handleRequest(event.request)) for some request
FetchEvent ==
    /\ pc = "idle"
    /\ \E p \in Paths : HandleRequest(p)

\* the probe fetch settles
ProbeSettles ==
    /\ pc = "probe"
    /\ \/ \E st \in Statuses : ProbeResolve(st)
       \/ ProbeReject

\* the relay fetch settles
RelaySettles ==
    /\ pc = "relay"
    /\ \/ \E res \in UpstreamResponses : RelayResolve(res)
       \/ RelayReject

Next ==
    \/ FetchEvent
    \/ ProbeSettles
    \/ RelaySettles
    \/ NextEvent

Spec == Init /\ [][Next]_vars

(***************************************************************************)
(* Properties                                                              *)
(***************************************************************************)

\* what is left of p after its first Len(PREFIX_ACCESS) characters
AfterAccess(p) == SubSeq(p, Len(PREFIX_ACCESS) + 1, Len(p))

\* p passes the access gate and the routing gate
PassesGates(p) ==
    /\ StartsWith(p, PREFIX_ACCESS)
    /\ StartsWith(AfterAccess(p), PREFIX_GH)

Is2xx(st) == st \in 200..299

NotFound404 == [body |-> NotFoundBody, status |-> 404, headers |-> NoHeaders]
FileNotFound404 == [body |-> FileNotFoundBody, status |-> 404, headers |-> NoHeaders]
ServerError500 == [body |-> ServerErrorBody, status |-> 500, headers |-> NoHeaders]

\* the patterns that matched the path
Matched ==
    {n \in {"release", "version", "blob", "raw"} :
        \/ n = "release" /\ releaseMatch # Null
        \/ n = "version" /\ versionMatch # Null
        \/ n = "blob" /\ blobMatch # Null
        \/ n = "raw" /\ rawMatch # Null}

\* a fetch of this request ended in a network failure: the request is over
\* and its last fetch never produced a response
FetchFailed ==
    /\ pc = "done"
    /\ fetched # <<>>
    /\ \/ Len(fetched) = 1 /\ probeStatus = 0 /\ upstream = Null
       \/ Len(fetched) = 2 /\ upstream = Null

\* C1: for each of the four shapes, a network failure of an outbound fetch
\* ends the request with the response 500 "Internal Server Error", and no
\* request ends with an exception escaping the handler.
C1_FailureIs500 ==
    pc = "done" =>
        /\ ~thrown
        /\ FetchFailed => response = ServerError500

\* C2: a path that does not start with the access prefix, or whose remainder
\* after the prefix does not start with /gh/, is answered 404 "404 Not Found"
\* without any outbound fetch.
C2_GatesReject404 ==
    (pc # "idle" /\ ~PassesGates(path)) =>
        /\ pc = "done"
        /\ ~thrown
        /\ response = NotFound404
        /\ fetched = <<>>

C2_Witness ==
    /\ pc = "done"
    /\ StartsWith(path, PREFIX_ACCESS)
    /\ ~StartsWith(AfterAccess(path), PREFIX_GH)
    /\ Len(path) > Len(PREFIX_ACCESS) + Len(PREFIX_GH)
    /\ response = NotFound404

\* C3: for a release-download path the first fetch is the probe of the
\* upstream URL, and a probe status outside 200..299 ends the request with
\* 404 "File not found" and no relay fetch.
C3_ProbeGuardsRelay ==
    releaseMatch # Null =>
        /\ fetched # <<>>
        /\ fetched[1] = GitHubHost \o releaseMatch[2] \o <<"/">> \o releaseMatch[3]
                          \o ReleasesDownload \o releaseMatch[4] \o <<"/">> \o releaseMatch[5]
        /\ (probeStatus # 0 /\ ~Is2xx(probeStatus)) =>
              /\ pc = "done"
              /\ ~thrown
              /\ response = FileNotFound404
              /\ Len(fetched) = 1

C3_Witness ==
    /\ releaseMatch # Null
    /\ probeStatus = 500
    /\ pc = "done"
    /\ response = FileNotFound404
    /\ Len(fetched) = 1

\* C4: a relayed response has access-control-allow-origin "*" whatever the
\* upstream set, every other upstream header unchanged, and the status of the
\* relay fetch's response.
C4_RelayCors ==
    upstream # Null =>
        /\ pc = "done"
        /\ ~thrown
        /\ DOMAIN response.headers = DOMAIN upstream.headers \cup {ACAO}
        /\ response.headers[ACAO] = Star
        /\ \A n \in DOMAIN upstream.headers \ {ACAO} : response.headers[n] = upstream.headers[n]
        /\ response.status = upstream.status

C4_Witness ==
    /\ upstream # Null
    /\ releaseMatch # Null
    /\ probeStatus = 200
    /\ upstream.status = 404
    /\ ACAO \in DOMAIN upstream.headers
    /\ upstream.headers[ACAO] = NullOrigin
    /\ response.status = 404
    /\ response.headers[ACAO] = Star

\* path is the access prefix followed by /gh/<m[2]>/<m[3]><sep><m[4]>/<m[5]>
PathIs(m, sep) ==
    path = PREFIX_ACCESS \o PREFIX_GH \o m[2] \o <<"/">> \o m[3] \o sep \o m[4] \o <<"/">> \o m[5]

\* C5: the URL fetched is the template of the shape the path was classified
\* into, filled with the owner, repo, tag or ref, and file of the path; blob
\* and raw share one template.
C5_UpstreamUrl ==
    fetched # <<>> =>
        /\ \A i \in DOMAIN fetched : fetched[i] = fetched[1]
        /\ IF releaseMatch # Null
           THEN /\ PathIs(releaseMatch, ReleasesDownload)
                /\ fetched[1] = GitHubHost \o releaseMatch[2] \o <<"/">> \o releaseMatch[3]
                       \o ReleasesDownload \o releaseMatch[4] \o <<"/">> \o releaseMatch[5]
           ELSE IF versionMatch # Null
           THEN /\ PathIs(versionMatch, <<"@">>)
                /\ fetched[1] = GitHubHost \o versionMatch[2] \o <<"/">> \o versionMatch[3]
                       \o RawRefsTags \o versionMatch[4] \o <<"/">> \o versionMatch[5]
           ELSE IF blobMatch # Null
           THEN /\ PathIs(blobMatch, <<"/", "b", "l", "o", "b", "/">>)
                /\ fetched[1] = RawHost \o blobMatch[2] \o <<"/">> \o blobMatch[3]
                       \o <<"/">> \o blobMatch[4] \o <<"/">> \o blobMatch[5]
                /\ fetched[1] = RawUrl(blobMatch[2], blobMatch[3], blobMatch[4], blobMatch[5])
           ELSE /\ rawMatch # Null
                /\ PathIs(rawMatch, <<"/", "r", "a", "w", "/">>)
                /\ fetched[1] = RawHost \o rawMatch[2] \o <<"/">> \o rawMatch[3]
                       \o <<"/">> \o rawMatch[4] \o <<"/">> \o rawMatch[5]

\* /3lwqk/gh/a/a/blob/a/a is fetched from https://raw.githubusercontent.com/a/a/a/a
C5_Witness ==
    /\ path = PREFIX_ACCESS \o PREFIX_GH
                \o <<"a", "/", "a", "/", "b", "l", "o", "b", "/", "a", "/", "a">>
    /\ Matched = {"blob"}
    /\ fetched = <<RawHost \o <<"a", "/", "a", "/", "a", "/", "a">>>>

\* C6 as stated: at most one of the four patterns matches any path.
C6_AtMostOneMatches == Cardinality(Matched) <= 1

\* the repo segment of the path, as the release, blob or raw pattern captured it
RepoSegments ==
    {m[3] : m \in {releaseMatch, blobMatch, rawMatch} \ {Null}}

\* C6 (amended): at most one of release-download, blob and raw matches any
\* path; short-version matches together with one of them only when the repo
\* segment contains "@", and then no third pattern matches.
C6_DisjointButVersion ==
    /\ Cardinality(Matched \ {"version"}) <= 1
    /\ Cardinality(Matched) > 1 =>
          /\ "version" \in Matched
          /\ \A seg \in RepoSegments : Includes(seg, <<"@">>)

C6_Witness ==
    /\ pc = "relay"
    /\ Matched = {"version", "raw"}
    /\ rawMatch[3] = <<"b", "@", "c">>

\* C7: a path that passes both gates and matches none of the four patterns is
\* answered 400 with the usage guide, which contains "Usage Guide", without
\* any outbound fetch.
C7_Unmatched400 ==
    (pc # "idle" /\ PassesGates(path) /\ Matched = {}) =>
        /\ pc = "done"
        /\ ~thrown
        /\ response.status = 400
        /\ response.body = generateUsageGuide
        /\ Includes(response.body, <<"U", "s", "a", "g", "e", " ", "G", "u", "i", "d", "e">>)
        /\ fetched = <<>>

C7_Witness ==
    /\ pc = "done"
    /\ PassesGates(path)
    /\ Len(path) > Len(PREFIX_ACCESS) + Len(PREFIX_GH)
    /\ Matched = {}
    /\ response.status = 400

\* C8: a request makes 0, 1 or 2 outbound fetches: none when a gate rejects
\* it or no pattern matches, exactly one for short-version, blob and raw, and
\* two only for release-download, the second only after the probe resolved
\* with a 2xx status; at most one fetch is pending at any time.
C8_FetchCount ==
    /\ inFlight \in {0, 1}
    /\ Len(fetched) \in {0, 1, 2}
    /\ (pc = "done" /\ Matched = {}) => Len(fetched) = 0
    /\ (pc # "idle" /\ Matched # {} /\ releaseMatch = Null) =>
          /\ Len(fetched) = 1
          /\ probeStatus = 0
    /\ Len(fetched) = 2 =>
          /\ releaseMatch # Null
          /\ Is2xx(probeStatus)
    /\ (pc = "done" /\ releaseMatch # Null /\ Is2xx(probeStatus)) => Len(fetched) = 2
    /\ pc = "done" => inFlight = 0

C8_Witness ==
    /\ pc = "relay"
    /\ releaseMatch # Null
    /\ Len(fetched) = 2
    /\ inFlight = 1
    /\ probeStatus = 299

\* C9: when a path matches more than one pattern, the URL fetched and the
\* probe policy are those of the earliest matching pattern in the order
\* release-download, short-version, blob, raw.
C9_FirstMatchWins ==
    Cardinality(Matched) > 1 =>
        /\ fetched # <<>>
        /\ "release" \in Matched =>
              /\ fetched[1] = GitHubHost \o releaseMatch[2] \o <<"/">> \o releaseMatch[3]
                     \o ReleasesDownload \o releaseMatch[4] \o <<"/">> \o releaseMatch[5]
              /\ Len(fetched) = 1 => (pc = "probe" \/ (pc = "done" /\ upstream = Null))
        /\ ("release" \notin Matched /\ "version" \in Matched) =>
              /\ fetched = <<GitHubHost \o versionMatch[2] \o <<"/">> \o versionMatch[3]
                     \o RawRefsTags \o versionMatch[4] \o <<"/">> \o versionMatch[5]>>
              /\ pc \in {"relay", "done"}
              /\ probeStatus = 0
        /\ (Matched \cap {"release", "version"} = {} /\ "blob" \in Matched) =>
              /\ fetched = <<RawHost \o blobMatch[2] \o <<"/">> \o blobMatch[3]
                     \o <<"/">> \o blobMatch[4] \o <<"/">> \o blobMatch[5]>>
              /\ pc \in {"relay", "done"}
              /\ probeStatus = 0

C9_Witness ==
    /\ Matched = {"release", "version"}
    /\ pc = "probe"
    /\ fetched = <<GitHubHost \o <<"a", "/", "b", "@", "c">> \o ReleasesDownload \o <<"a", "/">>>>

\* C10: for a release-download request a network failure of the probe or of
\* the relay fetch gives 500 "Internal Server Error", and every outcome is
\* 404 "File not found", 500 "Internal Server Error" or the relayed upstream
\* response.
C10_ReleaseOutcomes ==
    (pc = "done" /\ releaseMatch # Null) =>
        /\ ~thrown
        /\ FetchFailed => response = ServerError500
        /\ \/ response = FileNotFound404
           \/ response = ServerError500
           \/ /\ upstream # Null
              /\ response.status = upstream.status
              /\ response.body = upstream.body

C10_Witness ==
    /\ pc = "done"
    /\ releaseMatch # Null
    /\ Len(fetched) = 2
    /\ upstream = Null
    /\ response = ServerError500

====
